---- MODULE Spec2Model ----
(***************************************************************************)
(* Order lifecycle state machine (order-service) and M-Pesa transaction    *)
(* ledger with its callback reconciler (payment-service).                  *)
(*                                                                         *)
(* Every request handler is one action: the document store is read and     *)
(* written exactly as the handler's code reads and writes it, and the      *)
(* outcome of the handler (value returned or error thrown, outbound calls  *)
(* issued) is kept in `last` / `plast`.                                    *)
(***************************************************************************)
EXTENDS Integers, Sequences, FiniteSets, TLC

VARIABLES
    orders,        \* Firestore collection 'orders': order id -> order document
    userOrders,    \* Firestore collection 'user_orders': <<userId, orderId>> -> index entry
    refundRequests,\* order ids for which POST /api/payments/refund has been issued
    last,          \* outcome of the last order-service operation
    nops,          \* number of order-service operations performed
    environment,   \* MpesaConfig.environment of the payment-service process
    ledger,        \* Firestore collection 'mpesa_transactions', in insertion order
    issued,        \* number of checkout requests the gateway has accepted
    plast,         \* outcome of the last payment-service operation
    pops,          \* number of payment-service operations performed
    inflight       \* order-service requests being served, each between two awaits

orderVars == <<orders, userOrders, refundRequests, last, nops>>
paymentVars == <<environment, ledger, issued, plast, pops>>
vars == <<orders, userOrders, refundRequests, last, nops,
          environment, ledger, issued, plast, pops, inflight>>

\* ------------------------------------------------------------------ bounds
MaxOrders == 1
MaxOps == 6
MaxTx == 2
MaxPaymentOps == 3
MaxBody == 10
MaxRequests == 2
MaxAmount == 11
MaxApiOps == 4

\* ------------------------------------------------------- values and inputs
Undefined == "undefined"
Date == "Date"

Users == {"u1", "u2"}
\* the ids the store hands out, in this order; a caller may name any of them, also
\* before the store has handed it out
OrderIds == 1 .. MaxOrders
\* the order id as a push request and a webhook body carry it
OrderRef(id) == IF id = 1 THEN "order-1" ELSE "order-2"
Reasons == {"out of stock"}
OptionalReasons == Reasons \cup {Undefined}
TransactionIds == {"tx1"}
Receipts == {"RCP1"}

OrderStatus ==
    {"pending", "confirmed", "processing", "shipped",
     "delivered", "cancelled", "refunded", "failed"}

PaymentStatus == {"pending", "paid", "failed", "refunded", "partially_refunded"}

\* CreateOrderRequest samples: the spec's worked example, and a request whose
\* client-supplied subtotal and total are wrong
CreateRequests ==
    { [userId |-> "u1", items |-> <<[price |-> 100, quantity |-> 2]>>,
       shippingCost |-> 50, discount |-> 10, tax |-> 5,
       subtotal |-> 200, total |-> 245],
      [userId |-> "u2",
       items |-> <<[price |-> 100, quantity |-> 2], [price |-> 30, quantity |-> 1]>>,
       shippingCost |-> 0, discount |-> 20, tax |-> 0,
       subtotal |-> 1, total |-> 1] }

\* outcomes of POST /api/inventory/validate
InventoryOutcomes == {"valid", "invalid", "unreachable"}

\* ------------------------------------------------------ order-service: pure
validTransitions ==
    [pending    |-> {"confirmed", "cancelled", "failed"},
     confirmed  |-> {"processing", "cancelled", "refunded"},
     processing |-> {"shipped", "cancelled"},
     shipped    |-> {"delivered", "cancelled"},
     delivered  |-> {"refunded"},
     cancelled  |-> {},
     refunded   |-> {},
     failed     |-> {"pending", "cancelled"}]

\* a transition check that lets a cancelled order be reopened
validStatusTransitionReopen(current, next) ==
    next \in validTransitions[current] \/ (current = "cancelled" /\ next = "pending")

\* TRUE iff validateStatusTransition(current, next) does not throw
validStatusTransition(current, next) ==
    next \in validTransitions[current]

RECURSIVE sumItems(_)
sumItems(items) ==
    IF items = <<>> THEN 0
    ELSE sumItems(SubSeq(items, 1, Len(items) - 1))
         + items[Len(items)].price * items[Len(items)].quantity

\* the totals the client sent are kept
calculateTotalsFromClient(request) ==
    [subtotal |-> request.subtotal, total |-> request.total]

calculateTotals(request) ==
    LET subtotal == sumItems(request.items)
    IN [subtotal |-> subtotal,
        total |-> subtotal + request.shippingCost - request.discount + request.tax]

\* JavaScript truthiness of an optional string
Truthy(v) == v /= Undefined /\ v /= ""

\* ----------------------------------------------- order-service: repository
findById(id) == IF id \in DOMAIN orders THEN orders[id] ELSE Undefined

Exists(id) == id \in DOMAIN orders

\* the document OrderRepository.create writes for `request`
NewOrder(request) ==
    [userId |-> request.userId,
     status |-> "pending",
     paymentStatus |-> "pending",
     shippingStatus |-> "pending",
     subtotal |-> calculateTotals(request).subtotal,
     total |-> calculateTotals(request).total,
     statusHistory |-> <<>>,
     cancelledAt |-> Undefined,
     cancelledBy |-> Undefined,
     cancellationReason |-> Undefined,
     paymentTransactionId |-> Undefined,
     paymentReceipt |-> Undefined,
     paidAt |-> Undefined]

\* the index document OrderRepository.create writes beside the order
NewIndexEntry(id, order) ==
    [userId |-> order.userId, orderId |-> id, status |-> order.status,
     total |-> order.total]

Put(f, k, v) == [x \in DOMAIN f \cup {k} |-> IF x = k THEN v ELSE f[x]]

\* statusHistory after `statusHistory.<status>` is set to an entry with `reason`
WithHistory(history, status, reason) ==
    IF Truthy(reason) THEN Put(history, status, [timestamp |-> Date, reason |-> reason])
    ELSE history

\* OrderRepository.updateStatus on an existing order: the order document after it
StatusUpdated(order, status, reason) ==
    [order EXCEPT !.status = status,
                  !.statusHistory = WithHistory(order.statusHistory, status, reason)]

\* an updateStatus that leaves the per-user index as it was
IndexNotUpdated(index, order, id, status) == index

\* OrderRepository.updateStatus: the index collection after it
IndexUpdated(index, order, id, status) ==
    Put(index, <<order.userId, id>>, [index[<<order.userId, id>>] EXCEPT !.status = status])

\* cancelOrder refunds for any payment status
refundDueAlways(order) == TRUE

\* cancelOrder's test for initiating a refund, on the order it read
refundDue(order) == order.paymentStatus = "paid"

\* cancelOrder accepts an order in processing as well
cancellableWide(order) == order.status \in {"pending", "confirmed", "processing"}

\* cancelOrder's test that the order it read can be cancelled
cancellable(order) == order.status \in {"pending", "confirmed"}

\* ------------------------------------------------- order-service: operations
\* no document: what a handler that found no order has read
NoDocument == [exists |-> FALSE]

IndexEntry(order, id) ==
    IF <<order.userId, id>> \in DOMAIN userOrders
    THEN userOrders[<<order.userId, id>>] ELSE NoDocument

\* what a handler did: the request it served (`req`), the order document and index
\* entry that were stored when it started (`before`, `beforeIndex`), the value it
\* resolved to ("ok") or the message of the error it threw, the ids of the order and
\* index documents stored when it started, the outbound calls it issued and those of
\* them that failed
Outcome(op, orderId, req, result, calls, failed) ==
    [op |-> op, orderId |-> orderId, req |-> req,
     before |-> IF Exists(orderId) THEN orders[orderId] ELSE NoDocument,
     beforeIndex |-> IF Exists(orderId) THEN IndexEntry(orders[orderId], orderId)
                     ELSE NoDocument,
     stored |-> DOMAIN orders, indexed |-> DOMAIN userOrders,
     result |-> result, calls |-> calls, failed |-> failed]

Failed(call, ok) == IF ok THEN {} ELSE {call}

\* a validation whose catch block swallows a failed call
inventoryValidUnlessRefused(inventory) == inventory /= "invalid"

\* validateInventory returns: the call succeeded and reported the items valid
inventoryValid(inventory) == inventory = "valid"

\* a reservation whose failure is thrown again
reserveInventoryRethrows(reserveOk) == ~reserveOk

\* reserveInventory throws: never, its catch block only logs
reserveInventoryThrows(reserveOk) == FALSE

createOrder(request, inventory, reserveOk) ==
    LET req == [request |-> request, inventory |-> inventory, reserveOk |-> reserveOk]
    IN
    /\ nops < MaxOps
    /\ nops' = nops + 1
    /\ IF ~inventoryValid(inventory)
       THEN /\ last' = Outcome("createOrder", 0, req, "Failed to validate inventory",
                               {"inventory/validate"},
                               IF inventory = "unreachable" THEN {"inventory/validate"} ELSE {})
            /\ UNCHANGED <<orders, userOrders, refundRequests>>
       ELSE \* the store is full: the request is not taken
            /\ Cardinality(DOMAIN orders) < MaxOrders
            /\ LET id == Cardinality(DOMAIN orders) + 1
                   order == NewOrder(request)
               IN /\ orders' = Put(orders, id, order)
                  /\ userOrders' = Put(userOrders, <<order.userId, id>>, NewIndexEntry(id, order))
                  /\ last' = IF reserveInventoryThrows(reserveOk)
                              THEN Outcome("createOrder", id, req, "Inventory reservation error",
                                           {"inventory/validate", "inventory/reserve"},
                                           Failed("inventory/reserve", reserveOk))
                              ELSE Outcome("createOrder", id, req, "ok",
                                           {"inventory/validate", "inventory/reserve",
                                            "notifications/email"},
                                           Failed("inventory/reserve", reserveOk))
            /\ UNCHANGED refundRequests

updateOrderStatus(orderId, status, reason) ==
    LET req == [status |-> status]
    IN /\ nops < MaxOps
       /\ nops' = nops + 1
       /\ UNCHANGED refundRequests
       /\ IF ~Exists(orderId)
          THEN /\ last' = Outcome("updateOrderStatus", orderId, req, "Order not found", {}, {})
               /\ UNCHANGED <<orders, userOrders>>
          ELSE LET order == findById(orderId)
               IN IF ~validStatusTransition(order.status, status)
                  THEN /\ last' = Outcome("updateOrderStatus", orderId, req,
                                          "Cannot transition", {}, {})
                       /\ UNCHANGED <<orders, userOrders>>
                  ELSE /\ orders' = Put(orders, orderId, StatusUpdated(order, status, reason))
                       /\ userOrders' = IndexUpdated(userOrders, order, orderId, status)
                       /\ last' = Outcome("updateOrderStatus", orderId, req, "ok", {}, {})

\* a payment confirms the order whatever its status
confirmsOrderAlways(order) == TRUE

\* processPayment's test for advancing the order it read to confirmed
confirmsOrder(order) == order.status = "pending"

processPayment(orderId, transactionId, receipt, confirmOk) ==
    LET req == [transactionId |-> transactionId, receipt |-> receipt]
    IN /\ nops < MaxOps
       /\ nops' = nops + 1
       /\ UNCHANGED refundRequests
       /\ IF ~Exists(orderId)
          THEN /\ last' = Outcome("processPayment", orderId, req, "Order not found", {}, {})
               /\ UNCHANGED <<orders, userOrders>>
          ELSE LET order == findById(orderId)
                   paid == [order EXCEPT !.paymentStatus = "paid",
                                         !.paymentTransactionId = transactionId,
                                         !.paymentReceipt = receipt,
                                         !.paidAt = Date]
               IN /\ IF confirmsOrder(order)
                     THEN /\ orders' = Put(orders, orderId,
                                           StatusUpdated(paid, "confirmed", Undefined))
                          /\ userOrders' = IndexUpdated(userOrders, order, orderId, "confirmed")
                     ELSE /\ orders' = Put(orders, orderId, paid)
                          /\ UNCHANGED userOrders
                  /\ last' = Outcome("processPayment", orderId, req, "ok",
                                     {"inventory/confirm"},
                                     Failed("inventory/confirm", confirmOk))

cancelOrder(orderId, reason, cancelledBy, releaseOk, refundOk) ==
    LET req == [reason |-> reason, cancelledBy |-> cancelledBy]
    IN /\ nops < MaxOps
       /\ nops' = nops + 1
       /\ UNCHANGED userOrders
       /\ IF ~Exists(orderId)
          THEN /\ last' = Outcome("cancelOrder", orderId, req, "Order not found", {}, {})
               /\ UNCHANGED <<orders, refundRequests>>
          ELSE LET order == findById(orderId)
               IN IF ~cancellable(order)
                  THEN /\ last' = Outcome("cancelOrder", orderId, req,
                                          "Order cannot be cancelled at this stage", {}, {})
                       /\ UNCHANGED <<orders, refundRequests>>
                  ELSE /\ orders' = Put(orders, orderId,
                                        [order EXCEPT !.status = "cancelled",
                                                      !.cancelledAt = Date,
                                                      !.cancelledBy = cancelledBy,
                                                      !.cancellationReason = reason])
                       /\ refundRequests' = IF refundDue(order)
                                            THEN refundRequests \cup {orderId}
                                            ELSE refundRequests
                       /\ last' = Outcome("cancelOrder", orderId, req, "ok",
                                          {"inventory/release"}
                                          \cup (IF refundDue(order)
                                                THEN {"payments/refund"} ELSE {}),
                                          Failed("inventory/release", releaseOk)
                                          \cup (IF refundDue(order)
                                                THEN Failed("payments/refund", refundOk)
                                                ELSE {}))

\* ---------------------------------------------------- payment-service: values
NoId == <<>>
MerchantRequestId(k) == <<"MR", k>>
CheckoutRequestId(k) == <<"ws_CO", k>>
\* a checkout-request id the gateway never issued
UnknownCheckoutId == CheckoutRequestId(0)

\* a JavaScript value that is a string, a number (by its decimal text) or undefined
JsString(text) == [type |-> "string", text |-> text]
JsNumber(text) == [type |-> "number", text |-> text]
JsUndefined == [type |-> "undefined", text |-> Undefined]

\* a JavaScript number with at most one binary digit after the point: n + 0.5 if half
Num(n, half) == [n |-> n, half |-> half]
Whole(n) == Num(n, FALSE)

Digits == {"0", "1", "2", "3", "4", "5", "6", "7", "8", "9"}

Phone0712 == <<"0", "7", "1", "2", "3", "4", "5", "6", "7", "8">>
Phone254 == <<"+", "2", "5", "4", " ", "7", "1", "2", "3", "4", "5", "6", "7", "8">>
Phone12345 == <<"1", "2", "3", "4", "5">>

\* phone-number inputs: a prefix, up to MaxBody further digits, and possibly a
\* trailing separator
DigitSeq == <<"0", "1", "2", "3", "4", "5", "6", "7", "8", "9">>
Body7(k) == [i \in 1 .. k |-> IF i = 1 THEN "7" ELSE DigitSeq[((i - 1) % 10) + 1]]
Body2(k) == [i \in 1 .. k |-> DigitSeq[((i + 1) % 10) + 1]]
PhonePrefixes ==
    { <<>>, <<"0">>, <<"7">>, <<"1">>, <<"2", "5", "4">>, <<"+", "2", "5", "4", " ">>,
      <<"2", "5", "4", "0">> }
PhoneSuffixes == { <<>>, <<"-">> }
PhoneInputs ==
    {prefix \o body \o suffix :
        prefix \in PhonePrefixes,
        body \in {Body7(k) : k \in 0 .. MaxBody} \cup {Body2(k) : k \in 0 .. MaxBody},
        suffix \in PhoneSuffixes}

\* STKPushRequest samples
STKPushRequests ==
    { [phone |-> Phone0712, amount |-> Whole(100), orderId |-> "order-1"],
      [phone |-> Phone254, amount |-> Whole(5), orderId |-> "order-2"],
      [phone |-> Phone12345, amount |-> Whole(100), orderId |-> "order-1"],
      [phone |-> Phone0712, amount |-> Whole(0), orderId |-> "order-2"],
      [phone |-> Phone0712, amount |-> Whole(-1), orderId |-> "order-1"],
      [phone |-> Phone12345, amount |-> Whole(0), orderId |-> "order-2"] }

\* outcomes of GET /oauth/v1/generate and of POST /mpesa/stkpush/v1/processrequest
TokenOutcomes == {"token", "error"}
PushOutcomes == {"accepted", "rejected"}
\* `Failed to authenticate with M-Pesa: ${error.message}` for a 401 from the gateway
TokenErrorMessage == "Failed to authenticate with M-Pesa: Request failed with status code 401"
GatewayErrorMessage == "Bad Request - Invalid Timestamp"

MinProductionAmount == 10

\* --------------------------------------------------- payment-service: pure
StartsWith(s, prefix) ==
    Len(s) >= Len(prefix) /\ SubSeq(s, 1, Len(prefix)) = prefix

IsDigit(c) == c \in Digits

Ok(value) == [ok |-> TRUE, value |-> value, error |-> Undefined]
Throw(message) == [ok |-> FALSE, value |-> Undefined, error |-> message]

\* a normalisation that takes any digits after 254
validateAndFormatPhoneAnyLength(phone) ==
    LET cleaned == SelectSeq(phone, IsDigit)
    IN IF StartsWith(cleaned, <<"0">>) /\ Len(cleaned) = 10
       THEN Ok(<<"2", "5", "4">> \o SubSeq(cleaned, 2, Len(cleaned)))
       ELSE IF StartsWith(cleaned, <<"7">>) /\ Len(cleaned) = 9
       THEN Ok(<<"2", "5", "4">> \o cleaned)
       ELSE IF ~StartsWith(cleaned, <<"2", "5", "4">>)
       THEN Throw("Invalid phone number format. Use: 2547XXXXXXXX")
       ELSE Ok(cleaned)

validateAndFormatPhone(phone) ==
    LET cleaned == SelectSeq(phone, IsDigit)
    IN IF StartsWith(cleaned, <<"0">>) /\ Len(cleaned) = 10
       THEN Ok(<<"2", "5", "4">> \o SubSeq(cleaned, 2, Len(cleaned)))
       ELSE IF StartsWith(cleaned, <<"7">>) /\ Len(cleaned) = 9
       THEN Ok(<<"2", "5", "4">> \o cleaned)
       ELSE IF ~StartsWith(cleaned, <<"2", "5", "4">>) \/ Len(cleaned) /= 12
       THEN Throw("Invalid phone number format. Use: 2547XXXXXXXX")
       ELSE Ok(cleaned)

\* amount < 0 in place of amount <= 0
Negative(amount) == amount.n < 0

\* amount <= 0 and amount < bound, for a Num
NotPositive(amount) == amount.n < 0 \/ (amount.n = 0 /\ ~amount.half)
Below(amount, bound) == amount.n < bound

validateAmount(amount) ==
    IF NotPositive(amount)
    THEN Throw("Amount must be greater than 0")
    ELSE IF environment = "production" /\ Below(amount, MinProductionAmount)
    THEN Throw("Minimum amount for production is KES 10")
    ELSE Ok(Whole(amount.n))

\* ---------------------------------------------- payment-service: repository
\* the document createTransaction adds: the fields of `data`, every other field absent
NewTransaction(data) ==
    [orderId |-> data.orderId,
     merchantRequestId |-> IF "merchantRequestId" \in DOMAIN data
                           THEN data.merchantRequestId ELSE NoId,
     checkoutRequestId |-> IF "checkoutRequestId" \in DOMAIN data
                           THEN data.checkoutRequestId ELSE NoId,
     phone |-> data.phone,
     amount |-> data.amount,
     status |-> data.status,
     responseCode |-> IF "responseCode" \in DOMAIN data THEN data.responseCode ELSE Undefined,
     resultCode |-> JsUndefined,
     resultDescription |-> Undefined,
     queryResponse |-> FALSE,
     mpesaReceiptNumber |-> Undefined,
     transactionDate |-> Undefined,
     errorMessage |-> IF "errorMessage" \in DOMAIN data THEN data.errorMessage ELSE Undefined,
     callbackData |-> FALSE,
     environment |-> data.environment]

createTransaction(txs, data) == Append(txs, NewTransaction(data))

\* a query that lost its where clause
MatchingAny(txs, id) == 1 .. Len(txs)

\* the documents where('checkoutRequestId', '==', id) selects
Matching(txs, id) == {i \in 1 .. Len(txs) : txs[i].checkoutRequestId = id}

\* .limit(1) of them
FirstMatching(txs, id) == CHOOSE i \in Matching(txs, id) : \A j \in Matching(txs, id) : i <= j

findByCheckoutRequestId(txs, id) ==
    IF Matching(txs, id) = {} THEN NoDocument ELSE txs[FirstMatching(txs, id)]

Merge(doc, updates) ==
    [f \in DOMAIN doc \cup DOMAIN updates |-> IF f \in DOMAIN updates THEN updates[f] ELSE doc[f]]

\* an update that overwrites every document of the collection
updateEveryTransaction(txs, id, updates) ==
    [i \in 1 .. Len(txs) |-> Merge(txs[i], updates)]

\* updateTransaction on a checkout id that has a document: the collection after it
updateTransaction(txs, id, updates) ==
    [txs EXCEPT ![FirstMatching(txs, id)] = Merge(@, updates)]

\* ---------------------------------------------- payment-service: operations
NoError == <<>>
STKPushFailed(message) == <<"STK Push failed: ", message>>

\* what a payment-service handler did: the request it served, the ledger when it
\* started, "ok" or "error", the value returned or sent back, the message of the error
\* thrown, the outbound calls in the order issued, and whether its catch block ran
PaymentOutcome(op, req, result, response, error, calls, caught) ==
    [op |-> op, req |-> req, before |-> ledger, result |-> result, response |-> response,
     error |-> error, calls |-> calls, caught |-> caught]

TokenCall == [url |-> "/oauth/v1/generate"]
PushCall(amount, phone) ==
    [url |-> "/mpesa/stkpush/v1/processrequest", Amount |-> amount, PhoneNumber |-> phone]

\* a catch block that throws again without logging the failed transaction
STKPushCatchSilent(req, message, calls) ==
    [ledger |-> ledger, issued |-> issued, result |-> "error", response |-> NoDocument,
     error |-> STKPushFailed(message), calls |-> calls, caught |-> TRUE]

\* the catch block of initiateSTKPush: log a failed transaction and throw again
STKPushCatch(req, message, calls) ==
    [ledger |-> createTransaction(ledger,
                    [orderId |-> req.request.orderId, phone |-> req.request.phone,
                     amount |-> req.request.amount, status |-> "failed",
                     errorMessage |-> message, environment |-> environment]),
     issued |-> issued, result |-> "error", response |-> NoDocument,
     error |-> STKPushFailed(message), calls |-> calls, caught |-> TRUE]

\* a push stored as pending
AcceptedStatusPending == "pending"

\* the status initiateSTKPush stores for an accepted push
AcceptedStatus == "initiated"

\* the amount is validated before the phone number
validateRequestAmountFirst(request) ==
    LET phone == validateAndFormatPhone(request.phone)
        amount == validateAmount(request.amount)
    IN IF ~amount.ok THEN Throw(amount.error)
       ELSE IF ~phone.ok THEN Throw(phone.error)
       ELSE Ok([phone |-> phone.value, amount |-> amount.value])

\* the first two statements of initiateSTKPush: the phone number is validated, then
\* the amount; the first that throws ends the try block
validateRequest(request) ==
    LET phone == validateAndFormatPhone(request.phone)
        amount == validateAmount(request.amount)
    IN IF ~phone.ok THEN Throw(phone.error)
       ELSE IF ~amount.ok THEN Throw(amount.error)
       ELSE Ok([phone |-> phone.value, amount |-> amount.value])

\* MpesaService.initiateSTKPush on the ledger as it is
initiateSTKPush(req) ==
    LET request == req.request
        valid == validateRequest(request)
        calls == <<TokenCall, PushCall(valid.value.amount, valid.value.phone)>>
    IN IF ~valid.ok THEN STKPushCatch(req, valid.error, <<>>)
       ELSE IF req.token /= "token" THEN STKPushCatch(req, TokenErrorMessage, <<TokenCall>>)
       ELSE IF req.push /= "accepted" THEN STKPushCatch(req, GatewayErrorMessage, calls)
       ELSE LET result == [merchantRequestId |-> MerchantRequestId(issued + 1),
                           checkoutRequestId |-> CheckoutRequestId(issued + 1),
                           responseCode |-> "0"]
            IN [ledger |-> createTransaction(ledger,
                               [orderId |-> request.orderId,
                                merchantRequestId |-> result.merchantRequestId,
                                checkoutRequestId |-> result.checkoutRequestId,
                                phone |-> valid.value.phone,
                                amount |-> valid.value.amount,
                                status |-> AcceptedStatus,
                                responseCode |-> result.responseCode,
                                environment |-> environment]),
                issued |-> issued + 1, result |-> "ok", response |-> result,
                error |-> NoError, calls |-> calls, caught |-> FALSE]

\* a direct call of the service method
callInitiateSTKPush(request, token, push) ==
    LET req == [request |-> request, token |-> token, push |-> push]
        done == initiateSTKPush(req)
    IN /\ pops < MaxPaymentOps
       /\ Len(ledger) < MaxTx
       /\ pops' = pops + 1
       /\ ledger' = done.ledger
       /\ issued' = done.issued
       /\ plast' = PaymentOutcome("initiateSTKPush", req, done.result, done.response,
                                  done.error, done.calls, done.caught)
       /\ UNCHANGED environment

\* --- POST /api/payments/mpesa/stkpush
\* !body.phone || !body.amount || !body.orderId
MissingFields(body) ==
    body.phone = <<>> \/ body.amount = Whole(0) \/ ~Truthy(body.orderId)

MissingFieldsMessage == "Missing required fields: phone, amount, orderId"

\* the messages that contain the word Invalid
MessagesWithInvalid ==
    {"Invalid phone number format. Use: 2547XXXXXXXX", "Bad Request - Invalid Timestamp"}

\* error.message.includes('Invalid'), for the errors initiateSTKPush throws
IncludesInvalid(error) == \E i \in 1 .. Len(error) : error[i] \in MessagesWithInvalid

\* the status and body the route answers with
Reply(code, success, data, error) ==
    [code |-> code, success |-> success, data |-> data, error |-> error]

stkpushRoute(body, token, push) ==
    LET req == [request |-> body, token |-> token, push |-> push]
        done == initiateSTKPush(req)
    IN /\ pops < MaxPaymentOps
       /\ pops' = pops + 1
       /\ UNCHANGED environment
       /\ IF MissingFields(body)
          THEN /\ plast' = PaymentOutcome("POST stkpush", req, "ok",
                                          Reply(400, FALSE, NoDocument, <<MissingFieldsMessage>>),
                                          NoError, <<>>, FALSE)
               /\ UNCHANGED <<ledger, issued>>
          ELSE /\ Len(ledger) < MaxTx
               /\ ledger' = done.ledger
               /\ issued' = done.issued
               /\ plast' = PaymentOutcome("POST stkpush", req, "ok",
                               IF done.result = "ok"
                               THEN Reply(200, TRUE, done.response, NoError)
                               ELSE Reply(IF IncludesInvalid(done.error) THEN 400 ELSE 500,
                                          FALSE, NoDocument, done.error),
                               NoError, done.calls, done.caught)

\* resultCode === '0'
IsStringZero(resultCode) == resultCode.type = "string" /\ resultCode.text = "0"

\* --- queryTransaction
QueryCall(id) == [url |-> "/mpesa/stkpushquery/v1/query", CheckoutRequestID |-> id]

\* answers of the gateway to a status query: a result, or an error response
QueryAnswers ==
    << [kind |-> "result", ResultCode |-> JsString("0"),
        ResultDesc |-> "The service request is processed successfully."],
       [kind |-> "result", ResultCode |-> JsString("1032"),
        ResultDesc |-> "Request cancelled by user"],
       [kind |-> "result", ResultCode |-> JsNumber("0"),
        ResultDesc |-> "The service request is processed successfully."],
       [kind |-> "error"] >>

QueryErrorMessage == "Request failed with status code 500"
NotFoundMessage == "Transaction not found"

\* the catch block of queryTransaction: the error is thrown again, nothing is written
QueryCatch(req, message, calls) ==
    /\ plast' = PaymentOutcome("queryTransaction", req, "error", NoDocument,
                               <<message>>, calls, TRUE)
    /\ UNCHANGED ledger

queryTransaction(checkoutRequestId, token, answer) ==
    LET req == [checkoutRequestId |-> checkoutRequestId, token |-> token, answer |-> answer]
        calls == <<TokenCall, QueryCall(checkoutRequestId)>>
    IN /\ pops < MaxPaymentOps
       /\ pops' = pops + 1
       /\ UNCHANGED <<environment, issued>>
       /\ IF token /= "token" THEN QueryCatch(req, TokenErrorMessage, <<TokenCall>>)
          ELSE IF answer.kind /= "result" THEN QueryCatch(req, QueryErrorMessage, calls)
          ELSE IF Matching(ledger, checkoutRequestId) = {}
          THEN QueryCatch(req, NotFoundMessage, calls)
          ELSE LET result == [resultCode |-> answer.ResultCode,
                              resultDesc |-> answer.ResultDesc,
                              merchantRequestId |->
                                  findByCheckoutRequestId(ledger, checkoutRequestId).merchantRequestId,
                              checkoutRequestId |-> checkoutRequestId]
               IN /\ ledger' = updateTransaction(ledger, checkoutRequestId,
                                    [status |-> IF IsStringZero(result.resultCode)
                                                THEN "completed" ELSE "failed",
                                     resultCode |-> result.resultCode,
                                     resultDescription |-> result.resultDesc,
                                     queryResponse |-> TRUE])
                  /\ plast' = PaymentOutcome("queryTransaction", req, "ok", result,
                                             NoError, calls, FALSE)

\* a call of validateAndFormatPhone alone
formatPhone(phone) ==
    LET formatted == validateAndFormatPhone(phone)
    IN /\ plast' = PaymentOutcome("validateAndFormatPhone", phone,
                                  IF formatted.ok THEN "ok" ELSE "error",
                                  IF formatted.ok THEN formatted.value ELSE <<>>,
                                  IF formatted.ok THEN NoError ELSE <<formatted.error>>,
                                  <<>>, FALSE)
       /\ UNCHANGED <<environment, ledger, issued, pops>>

\* --- POST /api/payments/mpesa/callback

Item(name, value) == [Name |-> name, Value |-> value]
NoMetadata == [present |-> FALSE, Item |-> <<>>]
Metadata(items) == [present |-> TRUE, Item |-> items]

FullItems ==
    << Item("Amount", Whole(100)),
       Item("MpesaReceiptNumber", "ABC123"),
       Item("Balance", Undefined),
       Item("TransactionDate", "20261104101500"),
       Item("PhoneNumber", <<"2", "5", "4", "7", "0", "0", "0", "0", "0", "0", "0", "1">>) >>

ReceiptOnly == << Item("MpesaReceiptNumber", "ABC123") >>

StkCallback(resultCode, resultDesc, metadata) ==
    [kind |-> "stk", ResultCode |-> resultCode, ResultDesc |-> resultDesc,
     CallbackMetadata |-> metadata]

\* callback bodies, without their CheckoutRequestID: STK callbacks, a body without
\* Body.stkCallback, and a request without a body
CallbackBodies ==
    << StkCallback(JsString("0"), "The service request is processed successfully.",
                   Metadata(FullItems)),
       StkCallback(JsString("0"), "The service request is processed successfully.",
                   Metadata(ReceiptOnly)),
       StkCallback(JsString("0"), "The service request is processed successfully.",
                   NoMetadata),
       StkCallback(JsString("1032"), "Request cancelled by user", Metadata(FullItems)),
       StkCallback(JsNumber("0"), "The service request is processed successfully.",
                   Metadata(FullItems)),
       StkCallback(JsUndefined, Undefined, NoMetadata),
       [kind |-> "other"],
       [kind |-> "none"] >>

\* the Firestore call of the handler that rejects, if any
Faults == {"none", "find", "update1", "update2"}

\* the second update runs whatever the result code
ExtractsDetailsAlways(resultCode, metadata) == metadata.present

\* resultCode === '0' && stkCallback.CallbackMetadata?.Item
ExtractsDetails(resultCode, metadata) == IsStringZero(resultCode) /\ metadata.present

\* items.forEach that keeps the amount only
updateDataAmountOnly(items) ==
    LET amounts == SelectSeq(items, LAMBDA item : item.Name = "Amount")
    IN IF amounts = <<>> THEN <<>> ELSE [amount |-> amounts[Len(amounts)].Value]

RECURSIVE updateData(_)

\* updateData after items.forEach
updateData(items) ==
    IF items = <<>> THEN <<>>
    ELSE LET item == items[Len(items)]
             rest == updateData(SubSeq(items, 1, Len(items) - 1))
         IN CASE item.Name = "Amount" -> Put(rest, "amount", item.Value)
              [] item.Name = "MpesaReceiptNumber" -> Put(rest, "mpesaReceiptNumber", item.Value)
              [] item.Name = "TransactionDate" -> Put(rest, "transactionDate", item.Value)
              [] item.Name = "PhoneNumber" -> Put(rest, "phone", item.Value)
              [] OTHER -> rest

\* the acknowledgement returned at the end of the try block
CallbackAck == [ResultCode |-> 0, ResultDesc |-> "Success"]

\* a catch block that reports the failure to the gateway
CallbackCatchNack == [ResultCode |-> 1, ResultDesc |-> "Failed"]

\* the acknowledgement returned by the catch block
CallbackCatchAck == [ResultCode |-> 0, ResultDesc |-> "Success"]

\* the try block of the callback handler: [ledger, threw]
CallbackTry(body, id, fault) ==
    IF body.kind = "none" THEN [ledger |-> ledger, threw |-> TRUE]
    ELSE IF body.kind /= "stk" THEN [ledger |-> ledger, threw |-> FALSE]
    ELSE IF id = NoId \/ fault = "find" THEN [ledger |-> ledger, threw |-> TRUE]
    ELSE IF findByCheckoutRequestId(ledger, id) = NoDocument
    THEN [ledger |-> ledger, threw |-> FALSE]
    ELSE IF body.ResultCode.type = "undefined" \/ fault = "update1"
    THEN [ledger |-> ledger, threw |-> TRUE]
    ELSE LET first == updateTransaction(ledger, id,
                          [status |-> IF IsStringZero(body.ResultCode)
                                      THEN "completed" ELSE "failed",
                           resultCode |-> JsString(body.ResultCode.text),
                           resultDescription |-> body.ResultDesc,
                           callbackData |-> TRUE])
         IN IF ExtractsDetails(body.ResultCode, body.CallbackMetadata)
            THEN IF fault = "update2" THEN [ledger |-> first, threw |-> TRUE]
                 ELSE [ledger |-> updateTransaction(first, id,
                                      updateData(body.CallbackMetadata.Item)),
                       threw |-> FALSE]
            ELSE [ledger |-> first, threw |-> FALSE]

mpesaCallback(body, id, fault) ==
    LET done == CallbackTry(body, id, fault)
    IN /\ pops < MaxPaymentOps
       /\ pops' = pops + 1
       /\ ledger' = done.ledger
       /\ plast' = PaymentOutcome("callback",
                                  [body |-> body, CheckoutRequestID |-> id, fault |-> fault],
                                  "ok",
                                  IF done.threw THEN CallbackCatchAck ELSE CallbackAck,
                                  NoError, <<>>, done.threw)
       /\ UNCHANGED <<environment, issued>>

\* ------------------------------------------------------------ specification
NoPaymentOutcome ==
    [op |-> "none", req |-> <<>>, before |-> <<>>, result |-> "ok", response |-> NoDocument,
     error |-> NoError, calls |-> <<>>, caught |-> FALSE]

NoOutcome == Outcome("none", 0, <<>>, "ok", {}, {})

Init ==
    /\ orders = <<>>
    /\ userOrders = <<>>
    /\ refundRequests = {}
    /\ last = NoOutcome
    /\ nops = 0
    /\ environment = "sandbox"
    /\ ledger = <<>>
    /\ issued = 0
    /\ plast = NoPaymentOutcome
    /\ pops = 0
    /\ inflight = <<>>

CreateOrder ==
    \E request \in CreateRequests, inventory \in InventoryOutcomes, reserveOk \in BOOLEAN :
        createOrder(request, inventory, reserveOk) /\ UNCHANGED <<paymentVars, inflight>>

UpdateOrderStatus ==
    \E orderId \in OrderIds, status \in OrderStatus, reason \in OptionalReasons :
        updateOrderStatus(orderId, status, reason) /\ UNCHANGED <<paymentVars, inflight>>

ProcessPayment ==
    \E orderId \in OrderIds, transactionId \in TransactionIds,
       receipt \in Receipts, confirmOk \in BOOLEAN :
        processPayment(orderId, transactionId, receipt, confirmOk) /\ UNCHANGED <<paymentVars, inflight>>

CancelOrder ==
    \E orderId \in OrderIds, reason \in Reasons, cancelledBy \in Users,
       releaseOk \in BOOLEAN, refundOk \in BOOLEAN :
        cancelOrder(orderId, reason, cancelledBy, releaseOk, refundOk) /\ UNCHANGED <<paymentVars, inflight>>

Next == CreateOrder \/ UpdateOrderStatus \/ ProcessPayment \/ CancelOrder

Spec == Init /\ [][Next]_vars

\* --- the payment-service process
PaymentInit ==
    /\ orders = <<>>
    /\ userOrders = <<>>
    /\ refundRequests = {}
    /\ last = NoOutcome
    /\ nops = 0
    /\ environment \in {"sandbox", "production"}
    /\ ledger = <<>>
    /\ issued = 0
    /\ plast = NoPaymentOutcome
    /\ pops = 0
    /\ inflight = <<>>

InitiateSTKPush ==
    \E request \in STKPushRequests, token \in TokenOutcomes, push \in PushOutcomes :
        callInitiateSTKPush(request, token, push) /\ UNCHANGED <<orderVars, inflight>>

\* request bodies of the route: the push requests, and one without a phone number
StkPushBodies ==
    STKPushRequests \cup {[phone |-> <<>>, amount |-> Whole(100), orderId |-> "order-1"]}

StkPushRoute ==
    \E body \in StkPushBodies, token \in TokenOutcomes, push \in PushOutcomes :
        stkpushRoute(body, token, push) /\ UNCHANGED <<orderVars, inflight>>

\* the checkout ids callbacks are delivered with: those issued, one never issued, none
CallbackIds == {CheckoutRequestId(k) : k \in 1 .. issued} \cup {UnknownCheckoutId, NoId}

MpesaCallback ==
    \E b \in 1 .. Len(CallbackBodies), id \in CallbackIds, fault \in Faults :
        /\ CallbackBodies[b].kind /= "stk" => (id = NoId /\ fault = "none")
        /\ (fault /= "none" \/ id = NoId) => b \in {1, 7, 8}
        /\ mpesaCallback(CallbackBodies[b], id, fault)
        /\ UNCHANGED <<orderVars, inflight>>

\* status queries name a checkout id that was issued or one that was not
QueryTransaction ==
    \E id \in CallbackIds \ {NoId}, token \in TokenOutcomes, a \in 1 .. Len(QueryAnswers) :
        /\ (token /= "token" \/ id = UnknownCheckoutId) => a = 1
        /\ queryTransaction(id, token, QueryAnswers[a])
        /\ UNCHANGED <<orderVars, inflight>>

PaymentNext == InitiateSTKPush \/ StkPushRoute \/ MpesaCallback \/ QueryTransaction

PaymentSpec == PaymentInit /\ [][PaymentNext]_vars

\* --- validateAndFormatPhone on its inputs
FormatPhone ==
    \E phone \in PhoneInputs : formatPhone(phone) /\ UNCHANGED <<orderVars, inflight>>

PhoneNext == FormatPhone

PhoneSpec == PaymentInit /\ [][PhoneNext]_vars

\* --- initiateSTKPush on requested amounts
\* the amounts -1, -0.5, 0, 0.5, 1, ... up to MaxAmount + 0.5
AmountInputs == {Num(n, half) : n \in -1 .. MaxAmount, half \in BOOLEAN}

PushAmount ==
    \E amount \in AmountInputs, push \in PushOutcomes :
        /\ callInitiateSTKPush([phone |-> Phone0712, amount |-> amount,
                                orderId |-> OrderRef(1)], "token", push)
        /\ UNCHANGED <<orderVars, inflight>>

AmountNext == PushAmount

AmountSpec == PaymentInit /\ [][AmountNext]_vars

\* --- order-service requests served concurrently
\* Each handler is a chain of awaits on the document store; another request's steps
\* can run between any two of them. A request keeps the order it read.
Request(op, orderId, status, reason, by) ==
    [op |-> op, orderId |-> orderId, status |-> status, reason |-> reason, by |-> by,
     read |-> NoDocument, pc |-> "findById", result |-> Undefined]

\* the requests clients send
Requests ==
    {Request("updateOrderStatus", id, status, Undefined, "admin") :
        id \in OrderIds, status \in OrderStatus}
    \cup {Request("cancelOrder", id, "cancelled", "out of stock", "u1") : id \in OrderIds}
    \cup {Request("processPayment", id, "confirmed", Undefined, "webhook") : id \in OrderIds}

At(i, pc) == i \in DOMAIN inflight /\ inflight[i].pc = pc

\* request i goes on at `pc`, or ends with `result`
Goto(i, pc) == inflight' = [inflight EXCEPT ![i].pc = pc]
Return(i, result) == inflight' = [inflight EXCEPT ![i].pc = "done", ![i].result = result]

\* a request arrives
BeginRequest ==
    /\ Len(inflight) < MaxRequests
    /\ \E request \in Requests : inflight' = Append(inflight, request)
    /\ UNCHANGED <<orderVars, paymentVars>>

\* the handler's first await, orderRepo.findById, and the checks made on its result
FindById ==
    \E i \in DOMAIN inflight :
        /\ At(i, "findById")
        /\ LET r == inflight[i]
               order == findById(r.orderId)
               next == CASE ~Exists(r.orderId) -> "Order not found"
                         [] r.op = "updateOrderStatus" ->
                                IF validStatusTransition(order.status, r.status)
                                THEN "updateStatus" ELSE "Cannot transition"
                         [] r.op = "cancelOrder" ->
                                IF cancellable(order)
                                THEN "update" ELSE "Order cannot be cancelled at this stage"
                         [] OTHER -> "updatePaymentStatus"
           IN inflight' = [inflight EXCEPT
                  ![i].read = IF Exists(r.orderId) THEN order ELSE NoDocument,
                  ![i].pc = IF next \in {"updateStatus", "update", "updatePaymentStatus"}
                            THEN next ELSE "done",
                  ![i].result = IF next \in {"updateStatus", "update", "updatePaymentStatus"}
                                THEN Undefined ELSE next]
        /\ UNCHANGED <<orderVars, paymentVars>>

\* OrderRepository.updateStatus, the update of the order document
UpdateStatusOrder ==
    \E i \in DOMAIN inflight :
        /\ At(i, "updateStatus")
        /\ LET r == inflight[i]
           IN orders' = Put(orders, r.orderId,
                            StatusUpdated(orders[r.orderId], r.status, r.reason))
        /\ Goto(i, "updateStatusIndex")
        /\ UNCHANGED <<userOrders, refundRequests, last, nops, paymentVars>>

\* OrderRepository.updateStatus, the update of the per-user index; the handler returns
UpdateStatusIndex ==
    \E i \in DOMAIN inflight :
        /\ At(i, "updateStatusIndex")
        /\ LET r == inflight[i]
           IN userOrders' = IndexUpdated(userOrders, orders[r.orderId], r.orderId, r.status)
        /\ Return(i, "ok")
        /\ UNCHANGED <<orders, refundRequests, last, nops, paymentVars>>

\* cancelOrder: orderRepo.update with the cancellation fields
UpdateCancelled ==
    \E i \in DOMAIN inflight :
        /\ At(i, "update")
        /\ LET r == inflight[i]
           IN orders' = Put(orders, r.orderId,
                            [orders[r.orderId] EXCEPT !.status = "cancelled",
                                                      !.cancelledAt = Date,
                                                      !.cancelledBy = r.by,
                                                      !.cancellationReason = r.reason])
        /\ Goto(i, "refund")
        /\ UNCHANGED <<userOrders, refundRequests, last, nops, paymentVars>>

\* cancelOrder: release of the inventory and the refund, if the order read was paid
ReleaseAndRefund ==
    \E i \in DOMAIN inflight :
        /\ At(i, "refund")
        /\ refundRequests' = IF refundDue(inflight[i].read)
                             THEN refundRequests \cup {inflight[i].orderId}
                             ELSE refundRequests
        /\ Return(i, "ok")
        /\ UNCHANGED <<orders, userOrders, last, nops, paymentVars>>

\* processPayment: orderRepo.updatePaymentStatus, then the test of the status read
UpdatePaymentStatus ==
    \E i \in DOMAIN inflight :
        /\ At(i, "updatePaymentStatus")
        /\ LET r == inflight[i]
           IN orders' = Put(orders, r.orderId,
                            [orders[r.orderId] EXCEPT !.paymentStatus = "paid",
                                                      !.paymentTransactionId = "tx1",
                                                      !.paymentReceipt = "RCP1",
                                                      !.paidAt = Date])
        /\ IF confirmsOrder(inflight[i].read)
           THEN Goto(i, "updateStatus") ELSE Return(i, "ok")
        /\ UNCHANGED <<userOrders, refundRequests, last, nops, paymentVars>>

\* one order has been created and no request is being served
ConcurrentInit ==
    /\ \E request \in CreateRequests :
           /\ orders = Put(<<>>, 1, NewOrder(request))
           /\ userOrders = Put(<<>>, <<request.userId, 1>>, NewIndexEntry(1, NewOrder(request)))
    /\ refundRequests = {}
    /\ last = NoOutcome
    /\ nops = 0
    /\ environment = "sandbox"
    /\ ledger = <<>>
    /\ issued = 0
    /\ plast = NoPaymentOutcome
    /\ pops = 0
    /\ inflight = <<>>

ConcurrentNext ==
    \/ BeginRequest
    \/ FindById
    \/ UpdateStatusOrder
    \/ UpdateStatusIndex
    \/ UpdateCancelled
    \/ ReleaseAndRefund
    \/ UpdatePaymentStatus

ConcurrentSpec == ConcurrentInit /\ [][ConcurrentNext]_vars

\* --- the payment callback and the order service's payment webhook, side by side
\* The gateway calls back once for every push it accepted; the callback handler serves
\* each callback delivered to it. The order service's webhook is a public route: the
\* payment service never calls it, any client can.

\* results the gateway calls back with: paid with a full set of items, or cancelled
GatewayResults == {1, 4}

\* OrderController.handlePaymentWebhook
handlePaymentWebhook(event, orderId, transactionId, receipt, confirmOk) ==
    CASE event = "payment.success" -> processPayment(orderId, transactionId, receipt, confirmOk)
      [] event = "payment.failed" -> updateOrderStatus(orderId, "failed", "Payment failed")
      [] OTHER -> /\ nops < MaxOps
                  /\ nops' = nops + 1
                  /\ last' = Outcome("webhook", orderId, [event |-> event], "ok", {}, {})
                  /\ UNCHANGED <<orders, userOrders, refundRequests>>

WebhookEvents == {"payment.success", "payment.failed", "payment.pending"}

\* a push the gateway accepts is followed by a callback of the gateway
PushAndCallback ==
    \E request \in STKPushRequests, token \in TokenOutcomes, push \in PushOutcomes,
       b \in GatewayResults :
        /\ callInitiateSTKPush(request, token, push)
        /\ inflight' = IF issued' > issued
                       THEN Append(inflight, [op |-> "callback", body |-> CallbackBodies[b],
                                              CheckoutRequestID |-> CheckoutRequestId(issued')])
                       ELSE inflight
        /\ UNCHANGED orderVars

\* the callback handler serves a callback that was delivered
ServeCallback ==
    \E i \in DOMAIN inflight :
        /\ mpesaCallback(inflight[i].body, inflight[i].CheckoutRequestID, "none")
        /\ inflight' = SubSeq(inflight, 1, i - 1) \o SubSeq(inflight, i + 1, Len(inflight))
        /\ UNCHANGED orderVars

\* POST /api/webhooks/payment
PaymentWebhook ==
    \E event \in WebhookEvents, orderId \in OrderIds, transactionId \in TransactionIds,
       receipt \in Receipts, confirmOk \in BOOLEAN :
        /\ handlePaymentWebhook(event, orderId, transactionId, receipt, confirmOk)
        /\ UNCHANGED <<paymentVars, inflight>>

ReconcileNext == PushAndCallback \/ ServeCallback \/ PaymentWebhook

\* a callback delivered to the handler is served; clients are not bound to send anything
ReconcileSpec == ConcurrentInit /\ [][ReconcileNext]_vars /\ WF_vars(ServeCallback)

\* --- the order service's HTTP routes
\* MaxApiOps requests are served, one after the other
\* the authenticated users: request.user as verifyToken sets it
Callers ==
    { [uid |-> "u1", isAdmin |-> FALSE],
      [uid |-> "u2", isAdmin |-> FALSE],
      [uid |-> "admin", isAdmin |-> TRUE] }

\* request bodies of POST /api/orders: the create requests, and one without items
CreateBodies ==
    CreateRequests
    \cup { [userId |-> "u1", items |-> <<>>, shippingCost |-> 0, discount |-> 0, tax |-> 0,
            subtotal |-> 1, total |-> 1] }

\* CreateOrderSchema.safeParse(body).success, on the fields a request has here
CreateOrderSchema(body) ==
    /\ body.userId /= ""
    /\ Len(body.items) >= 1
    /\ \A i \in 1 .. Len(body.items) : body.items[i].quantity > 0 /\ body.items[i].price > 0
    /\ body.shippingCost >= 0 /\ body.discount >= 0 /\ body.tax >= 0
    /\ body.subtotal > 0 /\ body.total > 0

\* a schema that takes every order status
UpdateOrderStatusSchemaAny(status) == status \in OrderStatus

\* UpdateOrderStatusSchema.safeParse(body).success, on body.status
UpdateOrderStatusSchema(status) ==
    status \in {"pending", "confirmed", "processing", "shipped", "delivered", "cancelled"}

\* the controller answers with HTTP status `code` without calling the service
Refused(route, orderId, req, code) ==
    /\ nops < MaxOps
    /\ nops' = nops + 1
    /\ last' = Outcome(route, orderId, req, code, {}, {})
    /\ UNCHANGED <<orders, userOrders, refundRequests>>

\* POST /api/orders
PostOrder ==
    \E body \in CreateBodies, inventory \in InventoryOutcomes, reserveOk \in BOOLEAN :
        /\ nops < MaxApiOps
        /\ IF CreateOrderSchema(body)
           THEN createOrder(body, inventory, reserveOk)
           ELSE Refused("POST /api/orders", 0,
                        [request |-> body, inventory |-> inventory, reserveOk |-> reserveOk],
                        "400")
        /\ UNCHANGED <<paymentVars, inflight>>

\* PATCH /api/orders/:id/cancel
PatchCancel ==
    \E user \in Callers, orderId \in OrderIds, reason \in Reasons,
       releaseOk \in BOOLEAN, refundOk \in BOOLEAN :
        /\ nops < MaxApiOps
        /\ cancelOrder(orderId, reason, user.uid, releaseOk, refundOk)
        /\ UNCHANGED <<paymentVars, inflight>>

\* PATCH /api/admin/orders/:id/status
PatchStatus ==
    \E user \in Callers, orderId \in OrderIds, status \in OrderStatus,
       reason \in OptionalReasons :
        /\ nops < MaxApiOps
        /\ IF ~user.isAdmin
           THEN Refused("PATCH /api/admin/orders/:id/status", orderId, [status |-> status], "403")
           ELSE IF ~UpdateOrderStatusSchema(status)
           THEN Refused("PATCH /api/admin/orders/:id/status", orderId, [status |-> status], "400")
           ELSE updateOrderStatus(orderId, status, reason)
        /\ UNCHANGED <<paymentVars, inflight>>

\* POST /api/webhooks/payment
PostWebhook == nops < MaxApiOps /\ PaymentWebhook

ApiNext == PostOrder \/ PatchCancel \/ PatchStatus \/ PostWebhook

ApiSpec == Init /\ [][ApiNext]_vars

\* --- gateway callbacks served concurrently
\* The handler awaits findByCheckoutRequestId, then updateTransaction once or twice;
\* updateTransaction awaits its query and then the update of the document the query
\* returned. Another callback's steps can run between any two of these.

ReceiptNumbers == <<"ABC123", "DEF456", "GHI789", "JKL012">>

\* the entry an accepted push for order-1 left in the ledger, the k-th the gateway accepted
AcceptedEntry(k) ==
    NewTransaction([orderId |-> OrderRef(1),
                    merchantRequestId |-> MerchantRequestId(k),
                    checkoutRequestId |-> CheckoutRequestId(k),
                    phone |-> validateAndFormatPhone(Phone0712).value,
                    amount |-> Whole(100),
                    status |-> AcceptedStatus,
                    responseCode |-> "0",
                    environment |-> "sandbox"])

\* the callback of the gateway for its k-th checkout request: paid, or cancelled by the user
CallbackFor(k, paid) ==
    [op |-> "callback",
     CheckoutRequestID |-> CheckoutRequestId(k),
     body |-> StkCallback(IF paid THEN JsString("0") ELSE JsString("1032"),
                          IF paid THEN "The service request is processed successfully."
                          ELSE "Request cancelled by user",
                          Metadata(<<Item("Amount", Whole(100)),
                                     Item("MpesaReceiptNumber", ReceiptNumbers[k])>>)),
     pc |-> "find", ref |-> 0]

\* a query by order id in place of the checkout id
DocRefByOrder(txs, id) ==
    CHOOSE i \in 1 .. Len(txs) :
        /\ txs[i].orderId = txs[FirstMatching(txs, id)].orderId
        /\ \A j \in 1 .. i - 1 : txs[j].orderId /= txs[i].orderId

\* snapshot.docs[0].ref of updateTransaction's query
DocRef(txs, id) == FirstMatching(txs, id)

\* the fields of the handler's first update
CallbackStatus(body) ==
    [status |-> IF IsStringZero(body.ResultCode) THEN "completed" ELSE "failed",
     resultCode |-> JsString(body.ResultCode.text),
     resultDescription |-> body.ResultDesc,
     callbackData |-> TRUE]

\* a callback arrives
BeginCallback ==
    /\ Len(inflight) < MaxRequests
    /\ \E k \in 1 .. Len(ledger), paid \in BOOLEAN :
           inflight' = Append(inflight, CallbackFor(k, paid))
    /\ UNCHANGED <<orderVars, paymentVars>>

\* transactionRepo.findByCheckoutRequestId, and the test of its result
FindTransaction ==
    \E i \in DOMAIN inflight :
        /\ At(i, "find")
        /\ Goto(i, IF findByCheckoutRequestId(ledger, inflight[i].CheckoutRequestID) = NoDocument
                   THEN "done" ELSE "query1")
        /\ UNCHANGED <<orderVars, paymentVars>>

\* updateTransaction: the query for the document to update
QueryDocument ==
    \E i \in DOMAIN inflight :
        /\ At(i, "query1") \/ At(i, "query2")
        /\ inflight' =
               IF Matching(ledger, inflight[i].CheckoutRequestID) = {}
               THEN [inflight EXCEPT ![i].pc = "done"]
               ELSE [inflight EXCEPT
                        ![i].ref = DocRef(ledger, inflight[i].CheckoutRequestID),
                        ![i].pc = IF inflight[i].pc = "query1" THEN "write1" ELSE "write2"]
        /\ UNCHANGED <<orderVars, paymentVars>>

\* updateTransaction: docRef.update with the result of the callback
WriteStatus ==
    \E i \in DOMAIN inflight :
        /\ At(i, "write1")
        /\ ledger' = [ledger EXCEPT ![inflight[i].ref] = Merge(@, CallbackStatus(inflight[i].body))]
        /\ Goto(i, IF ExtractsDetails(inflight[i].body.ResultCode,
                                      inflight[i].body.CallbackMetadata)
                   THEN "query2" ELSE "done")
        /\ UNCHANGED <<orderVars, environment, issued, plast, pops>>

\* updateTransaction: docRef.update with the payment details; the handler returns
WriteDetails ==
    \E i \in DOMAIN inflight :
        /\ At(i, "write2")
        /\ ledger' = [ledger EXCEPT ![inflight[i].ref] =
                          Merge(@, updateData(inflight[i].body.CallbackMetadata.Item))]
        /\ Goto(i, "done")
        /\ UNCHANGED <<orderVars, environment, issued, plast, pops>>

\* the gateway has accepted MaxTx pushes for one order and no callback is being served
CallbackInit ==
    /\ orders = <<>>
    /\ userOrders = <<>>
    /\ refundRequests = {}
    /\ last = NoOutcome
    /\ nops = 0
    /\ environment = "sandbox"
    /\ ledger = [k \in 1 .. MaxTx |-> AcceptedEntry(k)]
    /\ issued = MaxTx
    /\ plast = NoPaymentOutcome
    /\ pops = 0
    /\ inflight = <<>>

CallbackNext ==
    \/ BeginCallback
    \/ FindTransaction
    \/ QueryDocument
    \/ WriteStatus
    \/ WriteDetails

CallbackSpec == CallbackInit /\ [][CallbackNext]_vars

\* ------------------------------------------------------------- order claims
\* the transition table as the specification states it
TableEdges ==
    { <<"pending", "confirmed">>, <<"pending", "cancelled">>, <<"pending", "failed">>,
      <<"confirmed", "processing">>, <<"confirmed", "cancelled">>, <<"confirmed", "refunded">>,
      <<"processing", "shipped">>, <<"processing", "cancelled">>,
      <<"shipped", "delivered">>, <<"shipped", "cancelled">>,
      <<"delivered", "refunded">>,
      <<"failed", "pending">>, <<"failed", "cancelled">> }

\* the last operation was `op` on an order that existed when it started
OnExisting(op) == last.op = op /\ last.before /= NoDocument

\* C1: updateOrderStatus on an existing order with a (current, requested) pair that is
\* not an edge of the transition table fails with an error and leaves the stored order
\* and its per-user index entry unchanged.
C1_InvalidTransitionRejected ==
    (OnExisting("updateOrderStatus") /\ <<last.before.status, last.req.status>> \notin TableEdges)
    => /\ last.result /= "ok"
       /\ orders[last.orderId] = last.before
       /\ IndexEntry(last.before, last.orderId) = last.beforeIndex

\* a delivered order has refused to go back to shipped
C1_Witness ==
    /\ OnExisting("updateOrderStatus")
    /\ last.result = "Cannot transition"
    /\ last.before.status = "delivered"
    /\ last.req.status = "shipped"

\* C2: updateOrderStatus on an existing order with a pair that is an edge of the table
\* succeeds and leaves both the stored order's status and the status of its per-user
\* index entry equal to the requested status; for an order id that does not exist it
\* fails with the not-found error and writes nothing.
C2_ValidTransitionApplied ==
    last.op = "updateOrderStatus"
    => /\ (last.before /= NoDocument
           /\ <<last.before.status, last.req.status>> \in TableEdges)
          => /\ last.result = "ok"
             /\ orders[last.orderId].status = last.req.status
             /\ IndexEntry(last.before, last.orderId) /= NoDocument
             /\ IndexEntry(last.before, last.orderId).status = last.req.status
       /\ last.before = NoDocument
          => /\ last.result = "Order not found"
             /\ last.orderId \notin DOMAIN orders
             /\ \A key \in DOMAIN userOrders : key[2] /= last.orderId

\* a delivered order has been moved to refunded, order document and index alike
C2_Witness ==
    /\ OnExisting("updateOrderStatus")
    /\ last.result = "ok"
    /\ last.before.status = "delivered"
    /\ orders[last.orderId].status = "refunded"
    /\ IndexEntry(last.before, last.orderId).status = "refunded"

\* C3: cancelOrder on an order whose status is neither pending nor confirmed fails with
\* an error, leaves the stored order unchanged and issues neither an inventory release
\* call nor a refund call.
C3_CancelRefused ==
    (OnExisting("cancelOrder") /\ last.before.status \notin {"pending", "confirmed"})
    => /\ last.result /= "ok"
       /\ orders[last.orderId] = last.before
       /\ "inventory/release" \notin last.calls
       /\ "payments/refund" \notin last.calls

\* a paid order in processing has refused to be cancelled
C3_Witness ==
    /\ OnExisting("cancelOrder")
    /\ last.result = "Order cannot be cancelled at this stage"
    /\ last.before.status = "processing"
    /\ last.before.paymentStatus = "paid"

\* C4: cancelOrder on an order whose status is pending or confirmed succeeds and sets
\* status cancelled with the cancelling actor, the reason and a cancellation timestamp,
\* also when the release call or the refund call fails; it issues a refund request
\* exactly when the payment status it read was paid.
C4_CancelApplied ==
    (OnExisting("cancelOrder") /\ last.before.status \in {"pending", "confirmed"})
    => /\ last.result = "ok"
       /\ orders[last.orderId].status = "cancelled"
       /\ orders[last.orderId].cancelledBy = last.req.cancelledBy
       /\ orders[last.orderId].cancellationReason = last.req.reason
       /\ orders[last.orderId].cancelledAt = Date
       /\ "inventory/release" \in last.calls
       /\ ("payments/refund" \in last.calls) <=> (last.before.paymentStatus = "paid")
       /\ last.before.paymentStatus = "paid" => last.orderId \in refundRequests

\* a paid, confirmed order has been cancelled although both the release and the refund
\* call failed
C4_Witness ==
    /\ OnExisting("cancelOrder")
    /\ last.result = "ok"
    /\ last.before.status = "confirmed"
    /\ last.before.paymentStatus = "paid"
    /\ last.failed = {"inventory/release", "payments/refund"}
    /\ orders[last.orderId].status = "cancelled"

\* ----------------------------------------------------------- payment claims
\* the callback handler has just served an STK callback for checkout id `id`
StkCallbackServed ==
    /\ plast.op = "callback"
    /\ plast.req.body.kind = "stk"

\* ... whose checkout id is that of a ledger entry, and no Firestore call failed
MatchedCallbackServed ==
    /\ StkCallbackServed
    /\ plast.req.fault = "none"
    /\ plast.req.CheckoutRequestID /= NoId
    /\ \E i \in 1 .. Len(plast.before) :
           plast.before[i].checkoutRequestId = plast.req.CheckoutRequestID

\* the position of the entry the callback is for: the first with its checkout id
CallbackEntry ==
    CHOOSE i \in 1 .. Len(plast.before) :
        /\ plast.before[i].checkoutRequestId = plast.req.CheckoutRequestID
        /\ \A j \in 1 .. i - 1 :
               plast.before[j].checkoutRequestId /= plast.req.CheckoutRequestID

\* the value of the last callback item called `name`, if there is one, is in `field`
ItemMerged(name, field) ==
    LET items == plast.req.body.CallbackMetadata.Item
    IN \A k \in 1 .. Len(items) :
           (/\ items[k].Name = name
            /\ \A later \in k + 1 .. Len(items) : items[later].Name /= name)
           => ledger[CallbackEntry][field] = items[k].Value

\* C5: the callback endpoint answers every request with exactly
\* {ResultCode: 0, ResultDesc: "Success"}: successful and failed results, unknown
\* checkout ids, bodies without an STK callback, and when the ledger lookup or an
\* update raises an exception
C5_CallbackAlwaysAcknowledged ==
    plast.op = "callback" =>
        /\ plast.result = "ok"
        /\ plast.response = [ResultCode |-> 0, ResultDesc |-> "Success"]

\* an update of the ledger raised and the handler still answered
C5_Witness ==
    /\ plast.op = "callback"
    /\ plast.req.fault = "update2"
    /\ plast.caught
    /\ plast.response = [ResultCode |-> 0, ResultDesc |-> "Success"]

\* C6: a callback with result code "0" for a checkout id that matches a ledger entry
\* leaves that entry completed, with each of the items Amount, MpesaReceiptNumber,
\* TransactionDate and PhoneNumber that is present merged into amount,
\* mpesaReceiptNumber, transactionDate and phone
C6_SuccessCallbackCompletes ==
    (/\ MatchedCallbackServed
     /\ plast.req.body.ResultCode = [type |-> "string", text |-> "0"])
    => /\ ledger[CallbackEntry].status = "completed"
       /\ ItemMerged("Amount", "amount")
       /\ ItemMerged("MpesaReceiptNumber", "mpesaReceiptNumber")
       /\ ItemMerged("TransactionDate", "transactionDate")
       /\ ItemMerged("PhoneNumber", "phone")

\* a "0" callback carrying only a receipt number completed an initiated entry
C6_Witness ==
    /\ MatchedCallbackServed
    /\ plast.req.body.ResultCode = [type |-> "string", text |-> "0"]
    /\ plast.req.body.CallbackMetadata.Item = <<[Name |-> "MpesaReceiptNumber", Value |-> "ABC123"]>>
    /\ plast.before[CallbackEntry].status = "initiated"
    /\ ledger[CallbackEntry].status = "completed"
    /\ ledger[CallbackEntry].mpesaReceiptNumber = "ABC123"

\* C7: a callback with a result code other than "0" for a matching ledger entry leaves
\* the entry failed and its amount, mpesaReceiptNumber, transactionDate and phone as
\* they were, even when the callback carries metadata items
C7_FailureCallbackKeepsReceiptFields ==
    (/\ MatchedCallbackServed
     /\ plast.req.body.ResultCode.type /= "undefined"
     /\ plast.req.body.ResultCode /= [type |-> "string", text |-> "0"])
    => /\ ledger[CallbackEntry].status = "failed"
       /\ \A field \in {"amount", "mpesaReceiptNumber", "transactionDate", "phone"} :
              ledger[CallbackEntry][field] = plast.before[CallbackEntry][field]

\* a "1032" callback with a full set of metadata items failed an initiated entry
C7_Witness ==
    /\ MatchedCallbackServed
    /\ plast.req.body.ResultCode = [type |-> "string", text |-> "1032"]
    /\ Len(plast.req.body.CallbackMetadata.Item) > 1
    /\ plast.before[CallbackEntry].status = "initiated"
    /\ ledger[CallbackEntry].status = "failed"

\* the callback's checkout id is that of no ledger entry
Unmatched ==
    \/ plast.req.CheckoutRequestID = NoId
    \/ \A i \in 1 .. Len(plast.before) :
           plast.before[i].checkoutRequestId /= plast.req.CheckoutRequestID

\* C8: a callback whose checkout id matches no ledger entry changes no entry, creates
\* none, and is acknowledged with the fixed success response
C8_UnmatchedCallbackIsNoOp ==
    (StkCallbackServed /\ Unmatched)
    => /\ ledger = plast.before
       /\ plast.response = [ResultCode |-> 0, ResultDesc |-> "Success"]

\* a "0" callback for a checkout id never issued met a ledger with an initiated entry
C8_Witness ==
    /\ StkCallbackServed
    /\ plast.req.CheckoutRequestID = <<"ws_CO", 0>>
    /\ plast.req.fault = "none"
    /\ plast.req.body.ResultCode = [type |-> "string", text |-> "0"]
    /\ \E i \in 1 .. Len(plast.before) : plast.before[i].status = "initiated"
    /\ ledger = plast.before

\* initiateSTKPush has just run and the gateway accepted / did not accept the push
PushAccepted ==
    /\ plast.op = "initiateSTKPush"
    /\ Len(plast.calls) = 2
    /\ plast.req.push = "accepted"

PushFailed ==
    /\ plast.op = "initiateSTKPush"
    /\ ~(Len(plast.calls) = 2 /\ plast.req.push = "accepted")

\* the ledger is the ledger before the call with one entry added
OneEntryAdded ==
    /\ Len(ledger) = Len(plast.before) + 1
    /\ SubSeq(ledger, 1, Len(plast.before)) = plast.before

\* C9: every initiateSTKPush call the gateway accepts adds exactly one ledger entry,
\* with status initiated, the order id of the request and the merchant-request and
\* checkout-request ids the gateway issued, and returns those two ids; every accepted
\* call has an entry of its own, also when two are for the same order
C9_AcceptedPushAddsInitiatedEntry ==
    /\ PushAccepted
       => /\ plast.result = "ok"
          /\ OneEntryAdded
          /\ ledger[Len(ledger)].status = "initiated"
          /\ ledger[Len(ledger)].orderId = plast.req.request.orderId
          /\ ledger[Len(ledger)].merchantRequestId = <<"MR", issued>>
          /\ ledger[Len(ledger)].checkoutRequestId = <<"ws_CO", issued>>
          /\ plast.response.merchantRequestId = <<"MR", issued>>
          /\ plast.response.checkoutRequestId = <<"ws_CO", issued>>
    /\ \A k \in 1 .. issued :
           Cardinality({i \in 1 .. Len(ledger) :
                            ledger[i].checkoutRequestId = <<"ws_CO", k>>}) = 1

\* a second accepted push for an order that already had an initiated entry
C9_Witness ==
    /\ PushAccepted
    /\ plast.result = "ok"
    /\ \E i \in 1 .. Len(plast.before) :
           /\ plast.before[i].status = "initiated"
           /\ plast.before[i].orderId = plast.req.request.orderId
    /\ ledger[Len(ledger)].status = "initiated"
    /\ Len(ledger) = Len(plast.before) + 1

\* the message of the failure of the push just served
FailureMessage ==
    LET request == plast.req.request
    IN IF request.phone = Phone12345
       THEN "Invalid phone number format. Use: 2547XXXXXXXX"
       ELSE IF request.amount.n <= 0 THEN "Amount must be greater than 0"
       ELSE IF environment = "production" /\ request.amount.n < 10
       THEN "Minimum amount for production is KES 10"
       ELSE IF plast.req.token = "error" THEN TokenErrorMessage
       ELSE GatewayErrorMessage

\* C10: every initiateSTKPush call that fails (invalid phone, invalid amount, token
\* request failure, gateway rejection) adds exactly one ledger entry, with status failed
\* and the error message, adds no initiated entry, and raises an error to the caller
C10_FailedPushAddsFailedEntry ==
    PushFailed
    => /\ OneEntryAdded
       /\ ledger[Len(ledger)].status = "failed"
       /\ ledger[Len(ledger)].errorMessage = FailureMessage
       /\ ledger[Len(ledger)].orderId = plast.req.request.orderId
       /\ plast.result = "error"
       /\ plast.error = <<"STK Push failed: ", FailureMessage>>

\* the gateway rejected a push that passed validation and authentication
C10_Witness ==
    /\ PushFailed
    /\ Len(plast.calls) = 2
    /\ plast.req.push = "rejected"
    /\ ledger[Len(ledger)].status = "failed"
    /\ ledger[Len(ledger)].errorMessage = GatewayErrorMessage
    /\ plast.result = "error"

\* C11: initiateSTKPush with an amount of 0 or less fails in both environments, and
\* with an amount below 10 fails in production only; each of these failures is raised
\* before any token request or push request is sent to the gateway
C11_AmountRejectedBeforeGateway ==
    plast.op = "initiateSTKPush" =>
        LET amount == plast.req.request.amount
            rejected == plast.result = "error" /\ plast.calls = <<>>
        IN /\ (amount.n <= 0 /\ ~amount.half) => rejected
           /\ (environment = "production" /\ amount.n < 10) => rejected
           /\ (/\ environment = "sandbox"
               /\ amount.n > 0
               /\ plast.req.request.phone /= Phone12345
               /\ plast.req.token = "token"
               /\ plast.req.push = "accepted") => plast.result = "ok"

\* in production an amount of 5 with a well-formed phone number was refused, with the
\* minimum-amount message, before any call
C11_Witness ==
    /\ plast.op = "initiateSTKPush"
    /\ environment = "production"
    /\ plast.req.request.amount = [n |-> 5, half |-> FALSE]
    /\ plast.req.request.phone /= Phone12345
    /\ plast.result = "error"
    /\ plast.calls = <<>>
    /\ plast.error = <<"STK Push failed: ", "Minimum amount for production is KES 10">>

\* a push request with a malformed phone number and an amount that is not positive
MalformedPhoneAndAmount ==
    /\ plast.op = "initiateSTKPush"
    /\ plast.req.request.phone = Phone12345
    /\ plast.req.request.amount.n <= 0

\* C12 as claimed: a request whose phone number is malformed and whose amount is not
\* positive fails with the amount error (the amount check precedes the phone check)
C12_AmountErrorFirst ==
    MalformedPhoneAndAmount
    => plast.error = <<"STK Push failed: ", "Amount must be greater than 0">>

\* C12 as amended: the phone check precedes the amount check, so such a request fails
\* with the phone-format error, and the failed ledger entry carries that message
C12_PhoneErrorFirst ==
    MalformedPhoneAndAmount
    => /\ plast.result = "error"
       /\ plast.error = <<"STK Push failed: ", "Invalid phone number format. Use: 2547XXXXXXXX">>
       /\ ledger[Len(ledger)].errorMessage = "Invalid phone number format. Use: 2547XXXXXXXX"

\* phone "12345" with amount 0 was refused
C12_Witness ==
    /\ MalformedPhoneAndAmount
    /\ plast.req.request.amount = [n |-> 0, half |-> FALSE]
    /\ plast.result = "error"
    /\ plast.calls = <<>>

\* the digits of the input of the normalisation just run, and the country prefix
InputDigits == SelectSeq(plast.req, LAMBDA c : c \in Digits)
Prefix254 == <<"2", "5", "4">>

\* C13: on the digits of the input, a 10-digit string starting with 0 becomes 254 and
\* its last 9 digits, a 9-digit string starting with 7 becomes 254 and the string, a
\* 12-digit string starting with 254 is returned unchanged, and every other input is
\* rejected; hence every accepted result is 12 digits starting with 254
C13_PhoneNormalization ==
    plast.op = "validateAndFormatPhone" =>
        LET d == InputDigits
        IN /\ IF Len(d) = 10 /\ d[1] = "0"
              THEN plast.result = "ok" /\ plast.response = Prefix254 \o SubSeq(d, 2, 10)
              ELSE IF Len(d) = 9 /\ d[1] = "7"
              THEN plast.result = "ok" /\ plast.response = Prefix254 \o d
              ELSE IF Len(d) = 12 /\ SubSeq(d, 1, 3) = Prefix254
              THEN plast.result = "ok" /\ plast.response = d
              ELSE /\ plast.result = "error"
                   /\ plast.error = <<"Invalid phone number format. Use: 2547XXXXXXXX">>
           /\ plast.result = "ok" =>
                  /\ Len(plast.response) = 12
                  /\ SubSeq(plast.response, 1, 3) = Prefix254
                  /\ \A i \in 1 .. 12 : plast.response[i] \in Digits

\* "0712345678" was normalised to "254712345678"
C13_Witness ==
    /\ plast.op = "validateAndFormatPhone"
    /\ plast.req = <<"0", "7", "1", "2", "3", "4", "5", "6", "7", "8">>
    /\ plast.result = "ok"
    /\ plast.response = <<"2", "5", "4", "7", "1", "2", "3", "4", "5", "6", "7", "8">>

\* queryTransaction has just returned the gateway's result for a checkout id that had
\* a ledger entry
QueryAnswered ==
    /\ plast.op = "queryTransaction"
    /\ plast.req.token = "token"
    /\ plast.req.answer.kind = "result"
    /\ \E i \in 1 .. Len(plast.before) :
           plast.before[i].checkoutRequestId = plast.req.checkoutRequestId

\* the position of the entry the query is for: the first with its checkout id
QueriedEntry ==
    CHOOSE i \in 1 .. Len(plast.before) :
        /\ plast.before[i].checkoutRequestId = plast.req.checkoutRequestId
        /\ \A j \in 1 .. i - 1 :
               plast.before[j].checkoutRequestId /= plast.req.checkoutRequestId

\* only the queried entry changed, and the call returned the gateway's code and text
QueryKeyedAndReturned ==
    /\ Len(ledger) = Len(plast.before)
    /\ \A j \in 1 .. Len(ledger) : j /= QueriedEntry => ledger[j] = plast.before[j]
    /\ plast.result = "ok"
    /\ plast.response.resultCode = plast.req.answer.ResultCode
    /\ plast.response.resultDesc = plast.req.answer.ResultDesc

\* C14 as claimed: the entry becomes completed when the gateway reports the numeric
\* result code 0 and failed for every other code, only that entry is updated, and the
\* gateway's code and description are returned
C14_NumericZeroCompletes ==
    QueryAnswered
    => /\ plast.req.answer.ResultCode = [type |-> "number", text |-> "0"]
          => ledger[QueriedEntry].status = "completed"
       /\ plast.req.answer.ResultCode.text /= "0" => ledger[QueriedEntry].status = "failed"
       /\ QueryKeyedAndReturned

\* C14 as amended: the entry becomes completed when the gateway reports the result
\* code as the string "0" and failed for every other code, the number 0 included; only
\* that entry is updated, and the gateway's code and description are returned
C14_StringZeroCompletes ==
    QueryAnswered
    => /\ ledger[QueriedEntry].status =
              IF plast.req.answer.ResultCode = [type |-> "string", text |-> "0"]
              THEN "completed" ELSE "failed"
       /\ ledger[QueriedEntry].resultCode = plast.req.answer.ResultCode
       /\ QueryKeyedAndReturned

\* a query answered "0" completed one initiated entry and left a second one initiated
C14_Witness ==
    /\ QueryAnswered
    /\ plast.req.answer.ResultCode = [type |-> "string", text |-> "0"]
    /\ plast.before[QueriedEntry].status = "initiated"
    /\ ledger[QueriedEntry].status = "completed"
    /\ \E j \in 1 .. Len(ledger) : j /= QueriedEntry /\ ledger[j].status = "initiated"

\* --------------------------------------------------- order claims, continued
\* the sum of price times quantity over the first n items
RECURSIVE LineTotal(_, _)
LineTotal(items, n) ==
    IF n = 0 THEN 0 ELSE LineTotal(items, n - 1) + items[n].price * items[n].quantity

\* createOrder has just stored an order
Created == last.op = "createOrder" /\ last.result = "ok"

\* C15: for every accepted createOrder request the stored order has subtotal equal to
\* the sum over items of price times quantity and total equal to
\* subtotal + shippingCost - discount + tax, whatever the client supplied
C15_TotalsRecomputed ==
    Created =>
        LET request == last.req.request
            order == orders[last.orderId]
        IN /\ order.subtotal = LineTotal(request.items, Len(request.items))
           /\ order.total = order.subtotal + request.shippingCost - request.discount
                            + request.tax
           /\ (request.items = <<[price |-> 100, quantity |-> 2]>>
               /\ request.shippingCost = 50 /\ request.discount = 10 /\ request.tax = 5)
              => (order.subtotal = 200 /\ order.total = 245)

\* a request that claimed subtotal 1 and total 1 was stored with 230 and 210
C15_Witness ==
    /\ Created
    /\ last.req.request.subtotal = 1
    /\ last.req.request.total = 1
    /\ orders[last.orderId].subtotal = 230
    /\ orders[last.orderId].total = 210

\* C16: when inventory validation reports the items invalid or cannot be reached,
\* createOrder fails and produces no order document, no per-user index entry and no
\* reservation request
C16_InvalidInventoryCreatesNothing ==
    (last.op = "createOrder" /\ last.req.inventory \in {"invalid", "unreachable"})
    => /\ last.result = "Failed to validate inventory"
       /\ DOMAIN orders = last.stored
       /\ DOMAIN userOrders = last.indexed
       /\ "inventory/reserve" \notin last.calls

\* the inventory service could not be reached and nothing was stored
C16_Witness ==
    /\ last.op = "createOrder"
    /\ last.req.inventory = "unreachable"
    /\ last.result /= "ok"
    /\ DOMAIN orders = {}
    /\ DOMAIN userOrders = {}

\* C17: when inventory validation succeeds and the reservation call fails, createOrder
\* still succeeds: the order and its index entry are stored, the order is retrievable
\* by id, and its order, payment and shipping status are pending
C17_ReservationFailureKeepsOrder ==
    (/\ last.op = "createOrder"
     /\ last.req.inventory = "valid"
     /\ ~last.req.reserveOk)
    => /\ last.result = "ok"
       /\ last.orderId \notin last.stored
       /\ last.orderId \in DOMAIN orders
       /\ <<last.req.request.userId, last.orderId>> \in DOMAIN userOrders
       /\ userOrders[<<last.req.request.userId, last.orderId>>].orderId = last.orderId
       /\ orders[last.orderId].userId = last.req.request.userId
       /\ orders[last.orderId].status = "pending"
       /\ orders[last.orderId].paymentStatus = "pending"
       /\ orders[last.orderId].shippingStatus = "pending"

\* an order was stored although its reservation call failed
C17_Witness ==
    /\ Created
    /\ "inventory/reserve" \in last.failed
    /\ last.orderId \in DOMAIN orders
    /\ orders[last.orderId].status = "pending"

\* C18: processPayment on an existing order sets payment status paid with the
\* transaction id, the receipt and a paid timestamp; the order status becomes confirmed
\* if and only if the status read was pending and is otherwise unchanged; the call
\* succeeds even when the inventory confirmation call fails
C18_PaymentRecorded ==
    OnExisting("processPayment")
    => /\ last.result = "ok"
       /\ orders[last.orderId].paymentStatus = "paid"
       /\ orders[last.orderId].paymentTransactionId = last.req.transactionId
       /\ orders[last.orderId].paymentReceipt = last.req.receipt
       /\ orders[last.orderId].paidAt = Date
       /\ orders[last.orderId].status =
              IF last.before.status = "pending" THEN "confirmed" ELSE last.before.status

\* a payment for a cancelled order was recorded, the confirmation call failed, and the
\* order stayed cancelled
C18_Witness ==
    /\ OnExisting("processPayment")
    /\ last.before.status = "cancelled"
    /\ "inventory/confirm" \in last.failed
    /\ last.result = "ok"
    /\ orders[last.orderId].paymentStatus = "paid"
    /\ orders[last.orderId].status = "cancelled"

\* ------------------------------------------------- payment claims, continued
\* the stkpush route has just refused a request for a validation reason: a malformed
\* phone number, an amount that is not positive, or one below the production minimum
RefusedForValidation ==
    /\ plast.op = "POST stkpush"
    /\ plast.response.success = FALSE
    /\ LET body == plast.req.request
       IN \/ body.phone \in {<<>>, Phone12345}
          \/ body.amount.n <= 0
          \/ (environment = "production" /\ body.amount.n < 10)

\* C19: every push-payment request rejected for a validation reason is answered by the
\* stkpush route with a 4xx status, never with a 5xx status
C19_ValidationAnswered4xx ==
    RefusedForValidation => plast.response.code \in 400 .. 499

\* ------------------------------------------------------- concurrency claims
\* C20: under any interleaving of concurrent updateOrderStatus, cancelOrder and
\* processPayment requests on the same order, every change of the stored order status
\* goes along an edge of the transition table; in particular a stored status of
\* cancelled or refunded never changes again
C20_StatusChangesAlongEdges ==
    [][\A id \in DOMAIN orders :
           orders'[id].status /= orders[id].status
           => /\ <<orders[id].status, orders'[id].status>> \in TableEdges
              /\ orders[id].status \notin {"cancelled", "refunded"}]_vars

\* --------------------------------------------------- order claims, continued
\* C21: every successful updateOrderStatus call leaves a status-history entry keyed by
\* the name of the new status, whether or not the caller supplied a reason
C21_HistoryEntryRecorded ==
    (OnExisting("updateOrderStatus") /\ last.result = "ok")
    => last.req.status \in DOMAIN orders[last.orderId].statusHistory

\* ------------------------------------------------ reconciliation claims
\* the callback endpoint has completed a ledger entry of order `id`
CompletedByCallback(id) ==
    \E k \in 1 .. Len(ledger) :
        /\ ledger[k].orderId = OrderRef(id)
        /\ ledger[k].status = "completed"
        /\ ledger[k].callbackData

\* C22: after the callback endpoint has processed a successful callback for a ledger
\* entry, the payment status of the order the entry refers to eventually becomes paid
C22_CompletedLeadsToPaid ==
    \A id \in OrderIds :
        (id \in DOMAIN orders /\ CompletedByCallback(id))
        ~> (id \in DOMAIN orders /\ orders[id].paymentStatus = "paid")


\* C28: in every reachable state an order has payment status paid only if the payment
\* ledger holds a completed transaction for that order; no sequence of requests to the
\* public endpoints marks an order paid without such a ledger entry
C28_PaidOnlyWithCompletedEntry ==
    \A id \in DOMAIN orders :
        orders[id].paymentStatus = "paid"
        => \E k \in 1 .. Len(ledger) :
               ledger[k].orderId = OrderRef(id) /\ ledger[k].status = "completed"

\* ------------------------------------------------------- concurrency claims
\* the callbacks in flight for the k-th checkout request
CallbacksFor(k) ==
    {i \in DOMAIN inflight : inflight[i].CheckoutRequestID = <<"ws_CO", k>>}

\* callback i carries the result code "0"
Paid(i) == inflight[i].body.ResultCode = [type |-> "string", text |-> "0"]

\* the receipt number callback i carries
ReceiptOf(i) ==
    LET items == inflight[i].body.CallbackMetadata.Item
    IN items[CHOOSE n \in 1 .. Len(items) : items[n].Name = "MpesaReceiptNumber"].Value

\* C23: callbacks for different checkout-request ids of one order, served concurrently
\* in any interleaving, do not conflict: as long as no callback for an entry has written,
\* the entry is as the push left it; once the one callback for an entry has finished, the
\* entry holds the status and the receipt of that callback (completed with its receipt
\* number, or failed without one)
C23_CallbacksKeyedByCheckoutId ==
    \A k \in 1 .. Len(ledger) :
        /\ ledger[k].checkoutRequestId = <<"ws_CO", k>>
        /\ ledger[k].orderId = "order-1"
        /\ (\A i \in CallbacksFor(k) : inflight[i].pc \in {"find", "query1", "write1"})
           => /\ ledger[k].status = "initiated"
              /\ ledger[k].mpesaReceiptNumber = "undefined"
              /\ ~ledger[k].callbackData
        /\ \A i \in CallbacksFor(k) :
               (CallbacksFor(k) = {i} /\ inflight[i].pc = "done")
               => /\ ledger[k].status = IF Paid(i) THEN "completed" ELSE "failed"
                  /\ ledger[k].mpesaReceiptNumber = IF Paid(i) THEN ReceiptOf(i) ELSE "undefined"
                  /\ ledger[k].resultCode = inflight[i].body.ResultCode

\* a paid callback for the first checkout request and a paid callback for the second,
\* of the same order, have both finished: each entry is completed with the receipt
\* number of its own callback
C23_Witness ==
    /\ Len(inflight) = 2
    /\ inflight[1].CheckoutRequestID = <<"ws_CO", 1>>
    /\ inflight[2].CheckoutRequestID = <<"ws_CO", 2>>
    /\ Paid(1) /\ Paid(2)
    /\ inflight[1].pc = "done" /\ inflight[2].pc = "done"
    /\ ledger[1].orderId = ledger[2].orderId
    /\ ledger[1].status = "completed" /\ ledger[1].mpesaReceiptNumber = "ABC123"
    /\ ledger[2].status = "completed" /\ ledger[2].mpesaReceiptNumber = "DEF456"


\* ------------------------------------------------- payment claims, continued
\* C29: once a ledger entry's status is completed, no later callback or queryTransaction
\* call for the same checkout-request id changes its status, and its receipt number is
\* never removed or replaced
C29_CompletedStaysCompleted ==
    /\ (MatchedCallbackServed /\ plast.before[CallbackEntry].status = "completed")
       => /\ ledger[CallbackEntry].status = "completed"
          /\ ledger[CallbackEntry].mpesaReceiptNumber
             = plast.before[CallbackEntry].mpesaReceiptNumber
    /\ (QueryAnswered /\ plast.before[QueriedEntry].status = "completed")
       => /\ ledger[QueriedEntry].status = "completed"
          /\ ledger[QueriedEntry].mpesaReceiptNumber
             = plast.before[QueriedEntry].mpesaReceiptNumber

\* ---------------------------------------------------------- amount claims
\* the push requests sent to the gateway by the initiateSTKPush call just served
PushesSent ==
    {c \in 1 .. Len(plast.calls) : plast.calls[c].url = "/mpesa/stkpush/v1/processrequest"}

\* C24: the Amount that initiateSTKPush sends to the gateway in a push request is a
\* whole number of at least 1, and of at least 10 in production mode, for every
\* requested amount, fractional ones such as 0.5 included
C24_AmountSentWholeAndPositive ==
    plast.op = "initiateSTKPush"
    => \A c \in PushesSent :
           /\ ~plast.calls[c].Amount.half
           /\ plast.calls[c].Amount.n >= 1
           /\ environment = "production" => plast.calls[c].Amount.n >= 10


\* --------------------------------------------------- order claims, continued
\* C25: after every completed order operation (createOrder, updateOrderStatus,
\* cancelOrder, processPayment) the status recorded in the order's per-user index entry
\* equals the status of the order document
C25_IndexStatusEqualsOrderStatus ==
    \A id \in DOMAIN orders :
        /\ IndexEntry(orders[id], id) /= NoDocument
        /\ IndexEntry(orders[id], id).status = orders[id].status


\* C26: in every reachable state an order whose status is cancelled and whose payment
\* status is paid has had a refund request issued for it, whatever the order of payment
\* webhooks, cancelOrder calls and status updates
C26_CancelledPaidHasRefund ==
    \A id \in DOMAIN orders :
        (orders[id].status = "cancelled" /\ orders[id].paymentStatus = "paid")
        => id \in refundRequests


\* ---------------------------------------------------------------- API claims
\* the uids of the administrators
AdminUids == {"admin"}

\* C27: a cancel request through the order API changes an order only when the
\* authenticated caller is the order's owning user or an admin; a cancel request by any
\* other authenticated user leaves the order unchanged
C27_CancelOnlyByOwnerOrAdmin ==
    (/\ OnExisting("cancelOrder")
     /\ last.req.cancelledBy /= last.before.userId
     /\ last.req.cancelledBy \notin AdminUids)
    => orders[last.orderId] = last.before


\* the admin route has just answered a status update itself
StatusUpdateRefused == last.op = "PATCH /api/admin/orders/:id/status"

\* C30: no sequence of requests to the order service's HTTP routes (create, cancel,
\* admin status update, payment webhook) brings an order to status refunded: the admin
\* route refuses a body whose status is refunded or failed and leaves the order as it
\* was, and no operation the routes start asks for refunded
C30_RefundedUnreachable ==
    /\ \A id \in DOMAIN orders : orders[id].status /= "refunded"
    /\ (last.op \in {"PATCH /api/admin/orders/:id/status", "updateOrderStatus"}
        /\ last.req.status \in {"refunded", "failed"}
        /\ last.before /= NoDocument)
       => /\ orders[last.orderId].status /= "refunded"
          /\ last.req.status = "refunded" => (StatusUpdateRefused /\ last.result \in {"400", "403"})
          /\ StatusUpdateRefused => orders[last.orderId] = last.before

\* an admin asked for refunded on a confirmed, paid order, a pair the transition table
\* allows, and the route answered 400 and left the order confirmed
C30_Witness ==
    /\ StatusUpdateRefused
    /\ last.result = "400"
    /\ last.req.status = "refunded"
    /\ last.before /= NoDocument
    /\ last.before.status = "confirmed"
    /\ last.before.paymentStatus = "paid"
    /\ orders[last.orderId].status = "confirmed"

================================================================
